---------------------------- MODULE Spec2Model ----------------------------
(***************************************************************************)
(* Model of the multi-provider analysis pipeline of desktop_auto:          *)
(*   - the Google AI retry helpers (src/ai_analysis.py, GoogleAIAnalyzer), *)
(*   - TradingAnalyzer.analyze_with_trend_alerts and                       *)
(*     TradingAnalyzer._combine_multi_provider_results.                    *)
(***************************************************************************)
EXTENDS Integers, Sequences, FiniteSets, TLC

VARIABLES
    \* ---- Google AI backoff helpers ----
    helper,          \* which helper runs: "chart", "decision" or "multi"
    attempt,         \* loop variable of `for attempt in range(1, max_attempts + 1)`
    attempts,        \* history: one record per model.generate_content invocation
    last_exception,  \* last_exception of the helper
    bpc,             \* "idle", "loop" or "done"
    bresult,         \* what the helper returned or raised
    \* ---- TradingAnalyzer.analyze_with_trend_alerts ----
    providers,       \* keys of self.providers
    google_consolidation_enabled,
    pc,              \* position of the call
    submitted,       \* provider -> number of executor.submit calls for it
    task,            \* provider -> "idle", "running" or "finished"
    returned,        \* provider -> what _run_single_provider returned
    completed,       \* providers in the order their futures completed
    collected,       \* number of completed futures the loop has handled
    results,         \* the results dict, in insertion order
    decision_source, \* how the consolidation call of this run went
    trading_decision,
    google_ai_wants_email,
    consensus_change_analysis,
    events,          \* report writes and send_trend_alert calls, in order
    email_env,       \* the environment EmailAlertManager() found
    ret,             \* what analyze_with_trend_alerts returned
    \* ---- run_scheduled (src/main.py) ----
    settings,        \* the environment run_scheduled and is_within_market_hours read
    spc,             \* position of run_scheduled
    now,             \* wall clock, seconds since midnight in CAPTURE_TIMEZONE
    run_count,       \* run_count of run_scheduled
    mains_started,   \* number of main() calls made so far
    slog,            \* checks, runs and sleeps of run_scheduled, in order
    \* ---- the report file of one symbol folder over several runs ----
    latest_file,     \* combined_analysis_latest.txt: its text, or absent
    prior_analysis,  \* what _load_prior_analysis returned in the current run
    run_analysis,    \* the analysis the current run came to
    saved,           \* the analyses handed to a completed save, oldest first
    rpc,             \* position of the current run
    \* ---- trading_analysis.PerplexityAnalyzer.analyze_with_trend_alerts ----
    screenshot_data, \* window type -> state of the screenshot file
    image_data_uris, \* the window types whose image was encoded
    api_answer,      \* what chat.completions.create came to
    lpc,             \* position of the call
    lret,            \* what the call returned
    \* ---- analyze_screenshots of the three analyzers ----
    messages,        \* the argument of analyze_screenshots
    requests,        \* analyzers called so far, with what became of each call
    \* ---- one _parse_google_ai_email_decision call ----
    decision_arg,    \* the trading_decision argument
    email_decision   \* what the call returned

backoffVars == <<helper, attempt, attempts, last_exception, bpc, bresult>>

pipelineVars ==
    <<providers, google_consolidation_enabled, pc, submitted, task, returned,
      completed, collected, results, decision_source, trading_decision,
      google_ai_wants_email, consensus_change_analysis, events, email_env,
      ret>>

schedVars == <<settings, spc, now, run_count, mains_started, slog>>

\* The variables of the parts added after the pipeline and the helpers.
storeVars == <<latest_file, prior_analysis, run_analysis, saved, rpc>>

legacyVars == <<screenshot_data, image_data_uris, api_answer, lpc, lret>>

analyzerVars == <<messages, requests>>

parserVars == <<decision_arg, email_decision>>

extVars == <<schedVars, storeVars, legacyVars, analyzerVars, parserVars>>

vars == <<backoffVars, pipelineVars, extVars>>

\* run_scheduled has not been called.
SchedIdle ==
    /\ settings = [kind |-> "unread"]
    /\ spc = "idle"
    /\ now = 0
    /\ run_count = 0
    /\ mains_started = 0
    /\ slog = <<>>

\* None of the parts added after the pipeline and the helpers is running.
\* No run over the symbol folder has begun.
StoreIdle ==
    /\ latest_file = [exists |-> FALSE, content |-> <<>>]
    /\ prior_analysis = [t |-> "null"]
    /\ run_analysis = [t |-> "null"]
    /\ saved = <<>>
    /\ rpc = "idle"

\* PerplexityAnalyzer.analyze_with_trend_alerts has not been called.
LegacyIdle ==
    /\ screenshot_data = <<>>
    /\ image_data_uris = {}
    /\ api_answer = [kind |-> "unasked"]
    /\ lpc = "idle"
    /\ lret = [kind |-> "pending"]

\* No analyzer is under test.
AnalyzersIdle == messages = <<>> /\ requests = <<>>

\* No decision text is being parsed on its own.
ParserIdle == decision_arg = <<>> /\ email_decision = [kind |-> "idle", value |-> FALSE]

ExtIdle == SchedIdle /\ StoreIdle /\ LegacyIdle /\ AnalyzersIdle /\ ParserIdle

None == "None"

(***************************************************************************)
(* Bounds and program constants                                            *)
(***************************************************************************)
\* random.uniform(0, 1) is drawn on a grid of JitterSteps steps per second;
\* all durations are counted in units of 1/JitterSteps second.
JitterSteps == 2

max_attempts == 5
base_delay == 1

(***************************************************************************)
(* Error classification                                                    *)
(***************************************************************************)
\* Messages an exception raised by model.generate_content may carry, and the
\* message of the RuntimeError the consolidation helpers raise themselves.
EmptyResponseMessage == "Empty response from Google AI"

ApiErrorMessages ==
    {"429 Too Many Requests", "503 The model is overloaded", "Invalid API key"}

\* str(e).lower()
Lower(msg) ==
    CASE msg = "429 Too Many Requests" -> "429 too many requests"
      [] msg = "503 The model is overloaded" -> "503 the model is overloaded"
      [] msg = "Invalid API key" -> "invalid api key"
      [] msg = "Empty response from Google AI" -> "empty response from google ai"

\* `term in error_str`: the retry terms that occur in a lower-cased message.
TermsIn(lowered) ==
    CASE lowered = "429 too many requests" -> {"429", "too many requests"}
      [] lowered = "503 the model is overloaded" -> {"503", "overloaded"}
      [] lowered = "invalid api key" -> {}
      [] lowered = "empty response from google ai" -> {}

ChartRetryTerms ==
    {"rate", "limit", "quota", "429", "503", "overloaded", "resource_exhausted"}

ConsolidationRetryTerms ==
    {"429", "resource exhausted", "rate limit", "quota", "ratelimit",
     "too many requests"}

RetryTerms(h) == IF h = "chart" THEN ChartRetryTerms ELSE ConsolidationRetryTerms

is_retryable(h, msg) == TermsIn(Lower(msg)) \cap RetryTerms(h) # {}

RECURSIVE Pow2(_)
Pow2(n) == IF n = 0 THEN 1 ELSE 2 * Pow2(n - 1)

\* sleep_time with the exponent attempt in place of attempt - 1
sleep_time_exponent_attempt(k, jitter) ==
    base_delay * Pow2(k) * JitterSteps + jitter

\* sleep_time = base_delay * (2 ** (attempt - 1)) + random.uniform(0, 1)
sleep_time(k, jitter) == base_delay * Pow2(k - 1) * JitterSteps + jitter

(***************************************************************************)
(* The helpers, one action per outcome of model.generate_content           *)
(***************************************************************************)
Helpers == {"chart", "decision", "multi"}

BackoffInit ==
    /\ helper \in Helpers
    /\ attempt = 1
    /\ attempts = <<>>
    /\ last_exception = None
    /\ bpc = "loop"
    /\ bresult = [kind |-> "pending"]

\* No helper call is under way.
BackoffIdle ==
    /\ helper = "chart"
    /\ attempt = 1
    /\ attempts = <<>>
    /\ last_exception = None
    /\ bpc = "idle"
    /\ bresult = [kind |-> "pending"]

Returned(value) == [kind |-> "returned", value |-> value]
Raised(msg) == [kind |-> "raised", msg |-> msg]

\* The loop header: the body runs only while attempt <= max_attempts.
InLoop == bpc = "loop" /\ attempt <= max_attempts

\* resp.text is non-empty: return text
AttemptText ==
    /\ InLoop
    /\ attempts' = Append(attempts, [n |-> attempt, outcome |-> "text",
                                     msg |-> None, slept |-> FALSE, duration |-> 0])
    /\ bresult' = Returned("text")
    /\ bpc' = "done"
    /\ UNCHANGED <<helper, attempt, last_exception>>
    /\ UNCHANGED <<pipelineVars, extVars>>

\* resp.text is empty but the response carries the text elsewhere:
\* candidates[0].content.parts[0].text (chart), resp['content'] (consolidation)
AttemptAlternate ==
    /\ InLoop
    /\ attempts' = Append(attempts, [n |-> attempt, outcome |-> "alternate",
                                     msg |-> None, slept |-> FALSE, duration |-> 0])
    /\ bresult' = Returned("text")
    /\ bpc' = "done"
    /\ UNCHANGED <<helper, attempt, last_exception>>
    /\ UNCHANGED <<pipelineVars, extVars>>

\* The retry test without `attempt < max_attempts`
should_retry_any_attempt(h, msg, k) == is_retryable(h, msg)

\* `if is_retryable and attempt < max_attempts`
should_retry(h, msg, k) == is_retryable(h, msg) /\ k < max_attempts

\* What the except clause does with an exception carrying msg, sleeping
\* jitter grid steps on top of the exponential delay when it retries.
HandleException(msg, jitter) ==
    /\ last_exception' = msg
    /\ IF should_retry(helper, msg, attempt)
       THEN /\ attempts' = Append(attempts,
                    [n |-> attempt, outcome |-> "error", msg |-> msg,
                     slept |-> TRUE,
                     duration |-> sleep_time(attempt, jitter)])
            /\ attempt' = attempt + 1
            /\ UNCHANGED <<bpc, bresult>>
       ELSE /\ attempts' = Append(attempts,
                    [n |-> attempt, outcome |-> "error", msg |-> msg,
                     slept |-> FALSE, duration |-> 0])
            /\ IF helper = "chart"
               THEN IF attempt = max_attempts
                    THEN \* break; return None
                         /\ bpc' = "done"
                         /\ bresult' = Returned(None)
                         /\ UNCHANGED attempt
                    ELSE \* falls through to the next iteration
                         /\ attempt' = attempt + 1
                         /\ UNCHANGED <<bpc, bresult>>
               ELSE \* raise
                    /\ bpc' = "done"
                    /\ bresult' = Raised(msg)
                    /\ UNCHANGED attempt
    /\ UNCHANGED helper
    /\ UNCHANGED <<pipelineVars, extVars>>

\* The response carries no text at all.
AttemptEmpty ==
    /\ InLoop
    /\ IF helper = "chart"
       THEN \* return None
            /\ attempts' = Append(attempts, [n |-> attempt, outcome |-> "empty",
                                             msg |-> None, slept |-> FALSE, duration |-> 0])
            /\ bresult' = Returned(None)
            /\ bpc' = "done"
            /\ UNCHANGED <<helper, attempt, last_exception>>
            /\ UNCHANGED <<pipelineVars, extVars>>
       ELSE \* raise RuntimeError("Empty response from Google AI") inside try
            HandleException(EmptyResponseMessage, 0)

\* model.generate_content raises
AttemptError ==
    /\ InLoop
    /\ \E msg \in ApiErrorMessages, jitter \in 0..JitterSteps :
          /\ (~should_retry(helper, msg, attempt) => jitter = 0)
          /\ HandleException(msg, jitter)

(***************************************************************************)
(* Provider analyses: texts, responses and their parsing                   *)
(***************************************************************************)
\* The providers TradingAnalyzer.__init__ can put in self.providers, in the
\* order it inserts them.
ProviderSetupOrder == <<"perplexity", "claude", "google", "grok", "openai">>
AllProviders == {ProviderSetupOrder[i] : i \in 1..Len(ProviderSetupOrder)}

\* At most MaxProviders of them are enabled in one run of the model.
MaxProviders == 2

\* A text is a sequence of words; " " stands for leading or trailing
\* white space.
RECURSIVE LStrip(_)
LStrip(t) == IF t # <<>> /\ Head(t) = " " THEN LStrip(Tail(t)) ELSE t

RECURSIVE RStrip(_)
RStrip(t) ==
    IF t # <<>> /\ t[Len(t)] = " " THEN RStrip(SubSeq(t, 1, Len(t) - 1)) ELSE t

\* str.strip()
Strip(t) == RStrip(LStrip(t))

\* JSON values of the TREND_EVALUATION object.
JNull == [t |-> "null"]
JInt(n) == [t |-> "int", v |-> n]
JStr(w) == [t |-> "str", v |-> w]

\* dict.get(key, default)
Get(d, key, default) == IF key \in DOMAIN d THEN d[key] ELSE default

\* Python truthiness of the values the model handles.
Truthy(v) ==
    CASE v.t = "null" -> FALSE
      [] v.t = "bool" -> v.v
      [] v.t = "int" -> v.v # 0
      [] v.t = "str" -> v.v # ""

JBool(b) == [t |-> "bool", v |-> b]

AnalysisMarker == "=== ANALYSIS ==="
TrendMarker == "=== TREND_EVALUATION ==="

\* A provider response is free text.  A structured response carries both
\* markers, an analysis section and a trend section; the trend section holds
\* a JSON object (json), text that is not JSON ("invalid") or no braces
\* ("nojson").
PlainResponse(t) == [kind |-> "plain", text |-> t]
StructuredResponse(a, j) == [kind |-> "structured", analysis |-> a, json |-> j]
NoResponse == [kind |-> "none"]

\* The whole text of a response, as the fallback paths return it.
ResponseText(r) ==
    IF r.kind = "plain" THEN r.text
    ELSE <<AnalysisMarker>> \o r.analysis \o <<TrendMarker>>
         \o (IF r.json.t = "nojson" THEN <<>> ELSE <<"{", "}">>)

\* The fallback dict with 'has_changes': True
ParsingFallback_flagging ==
    [has_changes |-> JBool(TRUE), change_type |-> JStr("parsing_fallback"),
     alert_level |-> JStr("low"), trend_change_probability |-> JInt(0),
     confidence_level |-> JStr("low"), summary |-> JStr("Analysis completed")]

ParsingFallback ==
    [has_changes |-> JBool(FALSE), change_type |-> JStr("parsing_fallback"),
     alert_level |-> JStr("low"), trend_change_probability |-> JInt(0),
     confidence_level |-> JStr("low"), summary |-> JStr("Analysis completed")]

ErrorFallback ==
    [has_changes |-> JBool(FALSE), change_type |-> JStr("error"),
     alert_level |-> JStr("low"), trend_change_probability |-> JInt(0),
     confidence_level |-> JStr("low"), summary |-> JStr("Error")]

TextResult(text, change_analysis) ==
    [analysis_text |-> [t |-> "text", v |-> text],
     change_analysis |-> [t |-> "dict", v |-> change_analysis]]

NoneResult == [analysis_text |-> JNull, change_analysis |-> JNull]

\* PerplexityAnalyzer._parse_response
_parse_response(response) ==
    CASE response.kind = "none" ->
            \* `in` on None raises TypeError: the except branch
            TextResult(<<"Analysis failed">>, ErrorFallback)
      [] response.kind = "plain" ->
            TextResult(response.text, ParsingFallback)
      [] response.kind = "structured" /\ response.json.t = "object" ->
            TextResult(Strip(response.analysis),
                [change_type |-> JStr("consolidated_evaluation"),
                 alert_level |-> Get(response.json.v, "alert_level", JStr("low")),
                 trend_change_probability |->
                     Get(response.json.v, "trend_change_probability", JInt(0)),
                 confidence_level |->
                     Get(response.json.v, "confidence_level", JStr("low")),
                 summary |-> Get(response.json.v, "summary", JStr("No summary"))])
      [] response.kind = "structured" /\ response.json.t = "invalid" ->
            \* json.loads raises: the except branch
            TextResult(ResponseText(response), ErrorFallback)
      [] response.kind = "structured" /\ response.json.t = "nojson" ->
            TextResult(ResponseText(response), ParsingFallback)

\* What a provider call can come to: the call fails before or in the API
\* request ("raise"), or the API answers with a response.
ApiFailure == [kind |-> "raise"]

\* TradingAnalyzer._analyze_with_custom_provider
_analyze_with_custom_provider(answer) ==
    IF answer.kind = "raise" THEN NoneResult ELSE _parse_response(answer)

GoogleChartChangeAnalysis ==
    [has_changes |-> JBool(TRUE), alert_level |-> JStr("low"),
     summary |-> JStr("Google AI chart analysis completed"),
     probability |-> JInt(0)]

\* TradingAnalyzer._analyze_with_google_ai
_analyze_with_google_ai(answer) ==
    IF answer.kind = "plain" /\ answer.text # <<>>
    THEN TextResult(answer.text, GoogleChartChangeAnalysis)
    ELSE NoneResult

\* TradingAnalyzer._run_single_provider
_run_single_provider(provider_name, answer) ==
    IF provider_name = "google"
    THEN _analyze_with_google_ai(answer)
    ELSE _analyze_with_custom_provider(answer)


(***************************************************************************)
(* The consolidated trading decision and its email decision                *)
(***************************************************************************)
\* str.upper() on the words of the decision texts of the model; every other
\* word of the model is already upper case.
UpperWord(w) ==
    CASE w = "email" -> "EMAIL"
      [] w = "alert" -> "ALERT"
      [] w = "decision:" -> "DECISION:"
      [] w = "yes" -> "YES"
      [] w = "Low" -> "LOW"
      [] w = "Moderate" -> "MODERATE"
      [] w = "High" -> "HIGH"
      [] w = "probability" -> "PROBABILITY"
      [] w = "Provider" -> "PROVIDER"
      [] w = "Consensus:" -> "CONSENSUS:"
      [] OTHER -> w

Upper(t) == [i \in 1..Len(t) |-> UpperWord(t[i])]

\* The pattern words a word of the model starts with.  No word of the model
\* ends with the first word of a pattern other than that word itself.
StartsOf(w) ==
    CASE w = "NOT" -> {"NOT", "NO"}
      [] w = "ALERT:" -> {"ALERT:", "ALERT"}
      [] OTHER -> {w}

\* `pattern in decision_text` for a pattern of several words: the words of the
\* text are single-spaced, so the pattern's words but the last match whole
\* words and its last word matches the start of a word.
Contains(t, pattern) ==
    \E i \in 1..(Len(t) - Len(pattern) + 1) :
        /\ SubSeq(t, i, i + Len(pattern) - 2)
               = SubSeq(pattern, 1, Len(pattern) - 1)
        /\ pattern[Len(pattern)] \in StartsOf(t[i + Len(pattern) - 1])

\* The keywords that occur inside a word that is not itself a keyword.
KeywordsInside(w) ==
    CASE w = "ALERT:" -> {"ALERT"}
      [] w = "WARNING:" -> {"WARNING"}
      [] w = "SIGNALS" -> {"SIGNAL"}
      [] OTHER -> {w}

\* `keyword in decision_text` for a keyword of one or two words
HasKeyword(t, keyword) ==
    IF Len(keyword) = 1
    THEN \E i \in 1..Len(t) : keyword[1] \in KeywordsInside(t[i])
    ELSE Contains(t, keyword)

yes_patterns ==
    { <<"EMAIL", "ALERT", "DECISION:", "YES">>,
      <<"EMAIL", "ALERT", "DECISION:YES">>,
      <<"SEND", "EMAIL", "ALERT">>,
      <<"EMAIL:", "YES">>,
      <<"ALERT:", "YES">>,
      <<"RECOMMENDATION:", "SEND", "EMAIL">>,
      <<"SHOULD", "SEND", "EMAIL">>,
      <<"ALERT", "RECOMMENDED">> }

no_patterns ==
    { <<"EMAIL", "ALERT", "DECISION:", "NO">>,
      <<"EMAIL", "ALERT", "DECISION:NO">>,
      <<"DO", "NOT", "SEND", "EMAIL">>,
      <<"DON'T", "SEND", "EMAIL">>,
      <<"EMAIL:", "NO">>,
      <<"ALERT:", "NO">>,
      <<"NO", "EMAIL", "NEEDED">>,
      <<"NOT", "ALERT">>,
      <<"NO", "ALERT", "NEEDED">> }

bullish_keywords ==
    { <<"BUY">>, <<"STRONG", "BUY">>, <<"BULLISH">>, <<"UPTREND">>,
      <<"SIGNAL">>, <<"ALERT">>, <<"OPPORTUNITY">>, <<"REVERSAL", "UP">>,
      <<"BREAKOUT">> }

bearish_keywords ==
    { <<"SELL">>, <<"STRONG", "SELL">>, <<"BEARISH">>, <<"DOWNTREND">>,
      <<"WARNING">>, <<"CAUTION">>, <<"REVERSAL", "DOWN">>, <<"BREAKDOWN">> }

KeywordCount(t, keywords) == Cardinality({k \in keywords : HasKeyword(t, k)})

\* TradingAnalyzer._parse_google_ai_email_decision; NoDecision stands for a
\* trading_decision of None.
NoDecision == <<>>

\* The parser with `>=` in the bullish rule and no second rule
_parse_google_ai_email_decision_bullish_only(decision) ==
    LET decision_text == Upper(decision)
        bullish_count == KeywordCount(decision_text, bullish_keywords)
        bearish_count == KeywordCount(decision_text, bearish_keywords)
    IN  IF decision = NoDecision THEN FALSE
        ELSE IF \E pattern \in yes_patterns : Contains(decision_text, pattern)
        THEN TRUE
        ELSE IF \E pattern \in no_patterns : Contains(decision_text, pattern)
        THEN FALSE
        ELSE /\ (HasKeyword(decision_text, <<"ALERT">>)
                 \/ HasKeyword(decision_text, <<"SIGNAL">>))
             /\ bullish_count >= bearish_count

_parse_google_ai_email_decision(decision) ==
    LET decision_text == Upper(decision)
        bullish_count == KeywordCount(decision_text, bullish_keywords)
        bearish_count == KeywordCount(decision_text, bearish_keywords)
    IN  IF decision = NoDecision THEN FALSE
        ELSE IF \E pattern \in yes_patterns : Contains(decision_text, pattern)
        THEN TRUE
        ELSE IF \E pattern \in no_patterns : Contains(decision_text, pattern)
        THEN FALSE
        ELSE IF /\ (HasKeyword(decision_text, <<"ALERT">>)
                    \/ HasKeyword(decision_text, <<"SIGNAL">>))
                /\ bullish_count > bearish_count
        THEN TRUE
        ELSE IF /\ (HasKeyword(decision_text, <<"WARNING">>)
                    \/ HasKeyword(decision_text, <<"CAUTION">>))
                /\ bearish_count > 0
        THEN TRUE
        ELSE FALSE

\* Texts the Google AI consolidation call can answer with.
GoogleDecisionTexts ==
    { <<"TRADING", "DECISION:", "SELL", "email", "alert", "decision:", "yes">>,
      <<"TRADING", "DECISION:", "HOLD", "EMAIL", "ALERT", "DECISION:", "NO">>,
      <<"TRADING", "DECISION:", "HOLD">>,
      <<"BULLISH", "BREAKOUT", "SIGNALS">> }

(***************************************************************************)
(* Consensus statistics                                                    *)
(***************************************************************************)
\* A results dict is a sequence, in insertion order, of
\* [provider, analysis_text, change_analysis] with a non-empty text and a
\* non-empty change-analysis dict.

RECURSIVE AllProbabilities_truthy(_)
\* all_probabilities with `if prob` in place of `if prob is not None`
AllProbabilities_truthy(rs) ==
    IF rs = <<>> THEN <<>>
    ELSE LET prob == Get(Head(rs).change_analysis,
                         "trend_change_probability", JNull)
         IN  (IF Truthy(prob) THEN <<prob>> ELSE <<>>)
             \o AllProbabilities_truthy(Tail(rs))

RECURSIVE AllProbabilities(_)
\* all_probabilities: the trend_change_probability values that are not None
AllProbabilities(rs) ==
    IF rs = <<>> THEN <<>>
    ELSE LET prob == Get(Head(rs).change_analysis,
                         "trend_change_probability", JNull)
         IN  (IF prob.t # "null" THEN <<prob>> ELSE <<>>)
             \o AllProbabilities(Tail(rs))

RECURSIVE AllAlerts(_)
\* all_alerts: one entry per provider whose has_changes is truthy
AllAlerts(rs) ==
    IF rs = <<>> THEN <<>>
    ELSE LET r == Head(rs)
             ca == r.change_analysis
         IN  (IF Truthy(Get(ca, "has_changes", JNull))
              THEN << [provider |-> r.provider,
                       alert_level |-> Get(ca, "alert_level", JStr("unknown")),
                       summary |-> Get(ca, "summary", JStr("")),
                       probability |->
                           Get(ca, "trend_change_probability", JInt(0))] >>
              ELSE <<>>)
             \o AllAlerts(Tail(rs))

RECURSIVE SumOf(_)
SumOf(probs) == IF probs = <<>> THEN 0 ELSE Head(probs).v + SumOf(Tail(probs))

\* sum() raises TypeError on a value that is not a number
Summable(probs) == \A i \in 1..Len(probs) : probs[i].t = "int"

\* A quotient n/d of two integers is kept as the pair [num, den].
Ratio(n, d) == [num |-> n, den |-> d]

\* avg_probability
AvgProbability(probs) ==
    IF probs # <<>> THEN Ratio(SumOf(probs), Len(probs)) ELSE Ratio(0, 1)

RECURSIVE MaxOf(_)
\* max_probability
MaxOf(probs) ==
    IF Len(probs) = 1 THEN probs[1].v
    ELSE LET m == MaxOf(Tail(probs))
         IN  IF probs[1].v >= m THEN probs[1].v ELSE m

RECURSIVE MinOf(_)
\* min_probability
MinOf(probs) ==
    IF Len(probs) = 1 THEN probs[1].v
    ELSE LET m == MinOf(Tail(probs))
         IN  IF probs[1].v <= m THEN probs[1].v ELSE m

\* str.lower() on an alert level
LowerLevel(level) ==
    CASE level = "LOW" -> "low"
      [] level = "MEDIUM" -> "medium"
      [] level = "HIGH" -> "high"
      [] level = "CRITICAL" -> "critical"
      [] OTHER -> level

\* alert_levels.get(x['alert_level'].lower(), 0)
AlertRank(level) ==
    CASE LowerLevel(level) = "low" -> 1
      [] LowerLevel(level) = "medium" -> 2
      [] LowerLevel(level) = "high" -> 3
      [] OTHER -> 0

\* max(all_alerts, key=...): the first alert of the highest rank
MaxAlert(all_alerts) ==
    LET best == CHOOSE i \in 1..Len(all_alerts) :
                    /\ \A j \in 1..Len(all_alerts) :
                          AlertRank(all_alerts[j].alert_level.v)
                              <= AlertRank(all_alerts[i].alert_level.v)
                    /\ \A j \in 1..(i - 1) :
                          AlertRank(all_alerts[j].alert_level.v)
                              < AlertRank(all_alerts[i].alert_level.v)
    IN  all_alerts[best]

\* Rendering an alert calls alert['alert_level'].upper(), which raises on a
\* level that is not a string.
AlertsRenderable(all_alerts) ==
    \A i \in 1..Len(all_alerts) : all_alerts[i].alert_level.t = "str"

(***************************************************************************)
(* TradingAnalyzer._generate_local_consolidated_decision                   *)
(***************************************************************************)
\* One recommendation from an alert level and a probability given as the
\* ratio num/den.
Recommend(level, num, den) ==
    IF level = JStr("high") \/ num * 10 > 7 * den THEN "BUY"
    ELSE IF level = JStr("low") \/ num * 10 < 3 * den THEN "SELL"
    ELSE "HOLD"

RECURSIVE CountOf(_, _)
CountOf(recs, x) ==
    IF recs = <<>> THEN 0
    ELSE (IF Head(recs) = x THEN 1 ELSE 0) + CountOf(Tail(recs), x)

\* The recommendations list without the padding loop
Recommendations_unpadded(rs, all_alerts) ==
    LET fromAlerts ==
            [i \in 1..Len(all_alerts) |->
                Recommend(all_alerts[i].alert_level,
                          all_alerts[i].probability.v, 100)]
        fromResults ==
            [i \in 1..Len(rs) |->
                LET ca == rs[i].change_analysis
                IN  IF Truthy(Get(ca, "has_changes", JBool(FALSE)))
                    THEN Recommend(Get(ca, "alert_level", JStr("medium")),
                             Get(ca, "trend_change_probability", JInt(0)).v, 1)
                    ELSE "HOLD"]
    IN  IF all_alerts # <<>> THEN fromAlerts ELSE fromResults

\* The recommendations list after padding with HOLD.
Recommendations(rs, all_alerts) ==
    LET fromAlerts ==
            [i \in 1..Len(all_alerts) |->
                Recommend(all_alerts[i].alert_level,
                          all_alerts[i].probability.v, 100)]
        fromResults ==
            [i \in 1..Len(rs) |->
                LET ca == rs[i].change_analysis
                IN  IF Truthy(Get(ca, "has_changes", JBool(FALSE)))
                    THEN Recommend(Get(ca, "alert_level", JStr("medium")),
                             Get(ca, "trend_change_probability", JInt(0)).v, 1)
                    ELSE "HOLD"]
        recs == IF all_alerts # <<>> THEN fromAlerts ELSE fromResults
    IN  recs \o [i \in 1..(Len(rs) - Len(recs)) |-> "HOLD"]

\* The places where the local decision divides or formats a probability
\* that is not a number.
LocalDecisionRaises(rs, all_alerts) ==
    \/ \E i \in 1..Len(all_alerts) : all_alerts[i].probability.t # "int"
    \/ \E i \in (Len(all_alerts) + 1)..Len(rs) :
          Get(rs[i].change_analysis, "trend_change_probability",
              JInt(0)).t # "int"

ConsensusDecision(recs) ==
    LET buy_votes == CountOf(recs, "BUY")
        sell_votes == CountOf(recs, "SELL")
        hold_votes == CountOf(recs, "HOLD")
    IN  IF buy_votes > sell_votes /\ buy_votes > hold_votes THEN "BUY"
        ELSE IF sell_votes > buy_votes /\ sell_votes > hold_votes THEN "SELL"
        ELSE "HOLD"

_generate_local_consolidated_decision(rs, avg_probability, all_alerts) ==
    IF LocalDecisionRaises(rs, all_alerts)
    THEN [kind |-> "raise"]
    ELSE [kind |-> "text",
          text |->
            <<"LOCAL", "CONSOLIDATED", "TRADING", "DECISION", "FOR", "SYMBOL",
              "TRADING", "DECISION:",
              ConsensusDecision(Recommendations(rs, all_alerts)),
              "Provider", "Consensus:", "TREND", "CHANGE", "EVALUATION:",
              IF avg_probability.num * 10 > 6 * avg_probability.den THEN "High"
              ELSE IF avg_probability.num * 10 > 4 * avg_probability.den
                   THEN "Moderate" ELSE "Low",
              "probability">>]


(***************************************************************************)
(* TradingAnalyzer._combine_multi_provider_results: consensus and text     *)
(***************************************************************************)
\* consensus_change_analysis without the `elif all_alerts` branch
Consensus_google_only(rs, google_wants_email) ==
    LET all_alerts == AllAlerts(rs)
        avg_probability == AvgProbability(AllProbabilities(rs))
    IN  IF google_wants_email
        THEN [has_changes |-> TRUE,
              alert_level |->
                  IF all_alerts # <<>> THEN MaxAlert(all_alerts).alert_level.v
                  ELSE IF avg_probability.num >= 50 * avg_probability.den
                       THEN "medium" ELSE "low",
              summary |->
                  IF all_alerts # <<>>
                  THEN <<"Google AI Consensus: ", MaxAlert(all_alerts).summary.v>>
                  ELSE <<"Google AI detected significant market conditions requiring attention">>,
              trend_change_probability |-> avg_probability,
              confidence_level |-> "high",
              provider_count |-> Len(rs),
              provider_agreement |->
                  IF all_alerts # <<>>
                  THEN Ratio(Len(all_alerts) * 100, Len(rs))
                  ELSE Ratio(0, 1),
              google_ai_decision |-> TRUE]
        ELSE [has_changes |-> FALSE,
              alert_level |-> "low",
              summary |-> <<"No significant changes detected by providers or Google AI">>,
              trend_change_probability |-> avg_probability,
              confidence_level |-> "medium",
              provider_count |-> Len(rs),
              provider_agreement |-> Ratio(0, 1)]

\* consensus_change_analysis
Consensus(rs, google_wants_email) ==
    LET all_alerts == AllAlerts(rs)
        avg_probability == AvgProbability(AllProbabilities(rs))
    IN  IF google_wants_email
        THEN [has_changes |-> TRUE,
              alert_level |->
                  IF all_alerts # <<>> THEN MaxAlert(all_alerts).alert_level.v
                  ELSE IF avg_probability.num >= 50 * avg_probability.den
                       THEN "medium" ELSE "low",
              summary |->
                  IF all_alerts # <<>>
                  THEN <<"Google AI Consensus: ", MaxAlert(all_alerts).summary.v>>
                  ELSE <<"Google AI detected significant market conditions requiring attention">>,
              trend_change_probability |-> avg_probability,
              confidence_level |-> "high",
              provider_count |-> Len(rs),
              provider_agreement |->
                  IF all_alerts # <<>>
                  THEN Ratio(Len(all_alerts) * 100, Len(rs))
                  ELSE Ratio(0, 1),
              google_ai_decision |-> TRUE]
        ELSE IF all_alerts # <<>>
        THEN [has_changes |-> TRUE,
              alert_level |-> MaxAlert(all_alerts).alert_level.v,
              summary |-> <<"Consensus from providers: ",
                            MaxAlert(all_alerts).summary.v>>,
              trend_change_probability |-> avg_probability,
              confidence_level |-> "high",
              provider_count |-> Len(rs),
              provider_agreement |->
                  Ratio(Len(all_alerts) * 100, Len(rs))]
        ELSE [has_changes |-> FALSE,
              alert_level |-> "low",
              summary |-> <<"No significant changes detected by providers or Google AI">>,
              trend_change_probability |-> avg_probability,
              confidence_level |-> "medium",
              provider_count |-> Len(rs),
              provider_agreement |-> Ratio(0, 1)]

provider_order == <<"claude", "perplexity", "google">>

section_titles(provider_name) ==
    CASE provider_name = "claude" -> "CLAUDE ANALYSIS"
      [] provider_name = "perplexity" -> "PERPLEXITY ANALYSIS"
      [] provider_name = "google" -> "GOOGLE AI ANALYSIS"

\* f"{provider_name.upper()} ANALYSIS"
OtherTitle(provider_name) ==
    CASE provider_name = "grok" -> "GROK ANALYSIS"
      [] provider_name = "openai" -> "OPENAI ANALYSIS"

InOrderList(provider_name) ==
    \E i \in 1..Len(provider_order) : provider_order[i] = provider_name

Section(title, analysis) == [line |-> title, body |-> Strip(analysis)]

\* The sections of the providers named in provider_order, in that order.
OrderedSections(rs) ==
    LET Find(name) == SelectSeq(rs, LAMBDA r : r.provider = name)
        One(name) == IF Find(name) # <<>>
                     THEN <<Section(section_titles(name),
                                    Find(name)[1].analysis_text)>>
                     ELSE <<>>
    IN  One(provider_order[1]) \o One(provider_order[2]) \o One(provider_order[3])

RECURSIVE OtherSections(_)
\* The sections of the other providers, in the order of results.items().
OtherSections(rs) ==
    IF rs = <<>> THEN <<>>
    ELSE (IF ~InOrderList(Head(rs).provider)
          THEN <<Section(OtherTitle(Head(rs).provider),
                         Head(rs).analysis_text)>>
          ELSE <<>>)
         \o OtherSections(Tail(rs))

\* combined_text, one element per block of lines
CombinedText(rs, decision) ==
    LET probs == AllProbabilities(rs)
        all_alerts == AllAlerts(rs)
    IN  (IF decision # NoDecision
         THEN <<[line |-> "GOOGLE AI CONSOLIDATED TRADING DECISION",
                 body |-> Strip(decision)]>>
         ELSE <<>>)
        \o OrderedSections(rs)
        \o OtherSections(rs)
        \o <<[line |-> "MULTI-PROVIDER CONSENSUS SUMMARY"]>>
        \o (IF probs # <<>>
            THEN <<[line |-> "Average Trend Change Probability",
                    avg |-> AvgProbability(probs),
                    min |-> MinOf(probs), max |-> MaxOf(probs),
                    used |-> Len(rs)]>>
            ELSE <<>>)
        \o (IF all_alerts # <<>>
            THEN <<[line |-> "Alerts from provider(s)", alerts |-> all_alerts]>>
            ELSE <<>>)


(***************************************************************************)
(* TradingAnalyzer.analyze_with_trend_alerts                               *)
(***************************************************************************)
NoneNone == [kind |-> "none"]

\* provider_names = list(self.providers.keys())
provider_names == SelectSeq(ProviderSetupOrder, LAMBDA p : p \in providers)

PipelineInit ==
    /\ providers \in {ps \in SUBSET AllProviders : Cardinality(ps) <= MaxProviders}
    /\ google_consolidation_enabled \in BOOLEAN
    /\ pc = "start"
    /\ submitted = [p \in AllProviders |-> 0]
    /\ task = [p \in AllProviders |-> "idle"]
    /\ returned = [p \in AllProviders |-> NoneResult]
    /\ completed = <<>>
    /\ collected = 0
    /\ results = <<>>
    /\ decision_source = [src |-> "unset"]
    /\ trading_decision = NoDecision
    /\ google_ai_wants_email = FALSE
    /\ consensus_change_analysis = [kind |-> "unset"]
    /\ events = <<>>
    /\ email_env = [kind |-> "unread"]
    /\ ret = [kind |-> "pending"]

\* No analysis call is under way.
PipelineIdle ==
    /\ providers = {}
    /\ google_consolidation_enabled = FALSE
    /\ pc = "idle"
    /\ submitted = [p \in AllProviders |-> 0]
    /\ task = [p \in AllProviders |-> "idle"]
    /\ returned = [p \in AllProviders |-> NoneResult]
    /\ completed = <<>>
    /\ collected = 0
    /\ results = <<>>
    /\ decision_source = [src |-> "unset"]
    /\ trading_decision = NoDecision
    /\ google_ai_wants_email = FALSE
    /\ consensus_change_analysis = [kind |-> "unset"]
    /\ events = <<>>
    /\ email_env = [kind |-> "unread"]
    /\ ret = [kind |-> "pending"]

\* `if not self.providers: return None, None`
NoProviders ==
    /\ pc = "start"
    /\ providers = {}
    /\ pc' = "returned"
    /\ ret' = NoneNone
    /\ UNCHANGED <<providers, google_consolidation_enabled, submitted, task,
                   returned, completed, collected, results, decision_source, trading_decision,
                   google_ai_wants_email, consensus_change_analysis, events, email_env>>
    /\ UNCHANGED <<backoffVars, extVars>>

\* The providers not yet handed to the executor, in provider_names order.
Unsubmitted == SelectSeq(provider_names, LAMBDA p : submitted[p] = 0)

\* One executor.submit of the dict comprehension; the pool has a worker for
\* every provider, so the task starts at once.
Submit ==
    /\ pc \in {"start", "submitting"}
    /\ Unsubmitted # <<>>
    /\ LET p == Head(Unsubmitted)
       IN  /\ submitted' = [submitted EXCEPT ![p] = @ + 1]
           /\ task' = [task EXCEPT ![p] = "running"]
    /\ pc' = IF Len(Unsubmitted) = 1 THEN "collect" ELSE "submitting"
    /\ UNCHANGED <<providers, google_consolidation_enabled, returned, completed,
                   collected, results, decision_source, trading_decision, google_ai_wants_email,
                   consensus_change_analysis, events, email_env, ret>>
    /\ UNCHANGED <<backoffVars, extVars>>

\* The analysis texts a provider can answer with.
ProviderTexts(p) == {<<>>, <<" ", p, " ">>}

\* The JSON objects a structured answer can carry.
TrendObjects ==
    { [alert_level |-> JStr("high"), trend_change_probability |-> v,
       summary |-> JStr("trend")] : v \in {JNull, JInt(85), JStr("85%")} }
    \cup { [summary |-> JStr("trend"), has_changes |-> JBool(TRUE)] }

\* What the API call of provider p can come to.
Answers(p) ==
    IF p = "google"
    THEN {ApiFailure, NoResponse} \cup {PlainResponse(t) : t \in ProviderTexts(p)}
    ELSE {ApiFailure, NoResponse}
         \cup {PlainResponse(t) : t \in ProviderTexts(p)}
         \cup {StructuredResponse(<<" ", p, " ">>, [t |-> "object", v |-> o]) :
                  o \in TrendObjects}
         \cup {StructuredResponse(<<p>>, [t |-> "invalid"])}

\* `change_analysis.get('has_changes')`
FlagsChanges(change_analysis) ==
    "has_changes" \in DOMAIN change_analysis /\ Truthy(change_analysis.has_changes)

\* _handle_alerts sending the alert of a provider that flags changes
_handle_alerts_sending(change_analysis) ==
    IF FlagsChanges(change_analysis) THEN <<"send_trend_alert">> ELSE <<>>

\* TradingAnalyzer._handle_alerts, as the events it adds: both branches print
\* and nothing else.
_handle_alerts(change_analysis) ==
    IF FlagsChanges(change_analysis) THEN <<>> ELSE <<>>

\* The events of one provider analysis: _handle_alerts is called once the
\* response is parsed, and not at all when the analysis failed before.
ProviderEvents(result) ==
    IF result.change_analysis.t = "dict"
    THEN _handle_alerts(result.change_analysis.v)
    ELSE <<>>

\* A worker thread runs _run_single_provider to its end.
Finish(p) ==
    /\ task[p] = "running"
    /\ \E answer \in Answers(p) :
          /\ returned' = [returned EXCEPT ![p] = _run_single_provider(p, answer)]
          /\ events' = events \o ProviderEvents(_run_single_provider(p, answer))
    /\ task' = [task EXCEPT ![p] = "finished"]
    /\ completed' = Append(completed, p)
    /\ UNCHANGED <<providers, google_consolidation_enabled, pc, submitted,
                   collected, results, decision_source, trading_decision, google_ai_wants_email,
                   consensus_change_analysis, email_env>>
    /\ UNCHANGED <<ret>>
    /\ UNCHANGED <<backoffVars, extVars>>

\* `if change_analysis`, the text not looked at
Usable_change_analysis_only(result) == result.change_analysis.t = "dict"

\* `if analysis_text and change_analysis`
Usable(result) ==
    /\ result.analysis_text.t = "text"
    /\ result.analysis_text.v # <<>>
    /\ result.change_analysis.t = "dict"

\* One iteration of `for future in as_completed(future_to_provider)`
Collect ==
    /\ pc = "collect"
    /\ collected < Len(completed)
    /\ LET pname == completed[collected + 1]
       IN  results' =
              IF Usable(returned[pname])
              THEN Append(results,
                     [provider |-> pname,
                      analysis_text |-> returned[pname].analysis_text.v,
                      change_analysis |-> returned[pname].change_analysis.v])
              ELSE results
    /\ collected' = collected + 1
    /\ UNCHANGED <<providers, google_consolidation_enabled, pc, submitted, task,
                   returned, completed, decision_source, trading_decision, google_ai_wants_email,
                   consensus_change_analysis, events, email_env, ret>>
    /\ UNCHANGED <<backoffVars, extVars>>

\* The with block left as soon as the futures finished so far are collected.
PoolDone_finished_so_far ==
    pc = "collect" /\ collected = Len(completed) /\ collected > 0

\* as_completed has yielded every future and the with block is left.
PoolDone == pc = "collect" /\ collected = Len(provider_names)

\* `if results: return self._combine_multi_provider_results(...)`
EnterCombine ==
    /\ PoolDone
    /\ results # <<>>
    /\ pc' = "combine"
    /\ UNCHANGED <<providers, google_consolidation_enabled, submitted, task,
                   returned, completed, collected, results, decision_source, trading_decision,
                   google_ai_wants_email, consensus_change_analysis, events, email_env, ret>>
    /\ UNCHANGED <<backoffVars, extVars>>

\* `else: return None, None`
NoSuccess ==
    /\ PoolDone
    /\ results = <<>>
    /\ pc' = "returned"
    /\ ret' = NoneNone
    /\ UNCHANGED <<providers, google_consolidation_enabled, submitted, task,
                   returned, completed, collected, results, decision_source, trading_decision,
                   google_ai_wants_email, consensus_change_analysis, events, email_env>>
    /\ UNCHANGED <<backoffVars, extVars>>


(***************************************************************************)
(* TradingAnalyzer._combine_multi_provider_results, step by step           *)
(***************************************************************************)
\* How the consolidation call can go: Google AI answers with a text, or the
\* key is missing or the call fails and the local decision is used.
DecisionSources ==
    {[src |-> "local"]} \cup {[src |-> "google", text |-> t] : t \in GoogleDecisionTexts}

\* TradingAnalyzer._generate_consolidated_trading_decision
_generate_consolidated_trading_decision(rs, avg_probability, all_alerts, source) ==
    IF rs = <<>>
    THEN [kind |-> "text",
          text |-> <<"=== CONSOLIDATED TRADING DECISION ===",
                     "No provider analyses available.">>]
    ELSE IF source.src = "google"
    THEN [kind |-> "text", text |-> <<" ">> \o source.text \o <<" ">>]
    ELSE _generate_local_consolidated_decision(rs, avg_probability, all_alerts)

\* The statistics, the consolidated decision and the consensus: lines
\* 1058-1199.  An exception of one of these lines leaves the whole call.
Consolidated(rs, enabled, source) ==
    LET probs == AllProbabilities(rs)
        all_alerts == AllAlerts(rs)
        decision ==
            IF enabled
            THEN _generate_consolidated_trading_decision(
                     rs, AvgProbability(probs), all_alerts, source)
            ELSE [kind |-> "text", text |-> NoDecision]
        wants == enabled /\ _parse_google_ai_email_decision(decision.text)
    IN  IF ~Summable(probs) THEN [kind |-> "raise"]
        ELSE IF decision.kind = "raise" THEN [kind |-> "raise"]
        ELSE IF all_alerts # <<>> /\ ~AlertsRenderable(all_alerts)
        THEN [kind |-> "raise"]
        ELSE [kind |-> "ok",
              trading_decision |-> decision.text,
              google_ai_wants_email |-> wants,
              consensus |-> Consensus(rs, wants)]

Consolidate ==
    /\ pc = "combine"
    /\ \E source \in IF google_consolidation_enabled
                     THEN DecisionSources ELSE {[src |-> "disabled"]} :
          LET c == Consolidated(results, google_consolidation_enabled, source)
          IN  /\ decision_source' = source
              /\ IF c.kind = "raise"
                 THEN /\ pc' = "raised"
                      /\ ret' = [kind |-> "raised"]
                      /\ UNCHANGED <<trading_decision, google_ai_wants_email,
                                     consensus_change_analysis>>
                 ELSE /\ pc' = "write"
                      /\ trading_decision' = c.trading_decision
                      /\ google_ai_wants_email' = c.google_ai_wants_email
                      /\ consensus_change_analysis' = c.consensus
                      /\ UNCHANGED ret
    /\ UNCHANGED <<providers, google_consolidation_enabled, submitted, task,
                   returned, completed, collected, results, events, email_env>>
    /\ UNCHANGED <<backoffVars, extVars>>

\* Lines 1201-1215 and 1242-1246: the report is written, or the write fails
\* and the except clause skips the email block.
WriteReport ==
    /\ pc = "write"
    /\ \E ok \in BOOLEAN :
          /\ events' = Append(events, IF ok THEN "report_written"
                                            ELSE "report_failed")
          /\ pc' = IF ok THEN "email" ELSE "text"
    /\ UNCHANGED email_env
    /\ UNCHANGED <<providers, google_consolidation_enabled, submitted, task,
                   returned, completed, collected, results, decision_source,
                   trading_decision, google_ai_wants_email,
                   consensus_change_analysis, ret>>
    /\ UNCHANGED <<backoffVars, extVars>>

\* The environment EmailAlertManager.__init__ reads.
EmailEnvs ==
    { [EMAIL_USER |-> "me@example.com", EMAIL_PASSWORD |-> "secret",
       EMAIL_TO |-> "you@example.com", SMTP_PORT |-> port] :
          port \in {"587", "smtp"} }
    \cup { [EMAIL_USER |-> "", EMAIL_PASSWORD |-> "secret",
            EMAIL_TO |-> "you@example.com", SMTP_PORT |-> "587"],
           [EMAIL_USER |-> "me@example.com", EMAIL_PASSWORD |-> "",
            EMAIL_TO |-> "you@example.com", SMTP_PORT |-> "587"],
           [EMAIL_USER |-> "me@example.com", EMAIL_PASSWORD |-> "secret",
            EMAIL_TO |-> "", SMTP_PORT |-> "587"] }

\* int(os.getenv('SMTP_PORT', '587')) raises ValueError on a non-number
PortIsInt(port) == port = "587"

\* is_configured with any() in place of all()
is_configured_any(env) ==
    env.EMAIL_USER # "" \/ env.EMAIL_PASSWORD # "" \/ env.EMAIL_TO # ""

\* EmailAlertManager.is_configured
is_configured(env) ==
    env.EMAIL_USER # "" /\ env.EMAIL_PASSWORD # "" /\ env.EMAIL_TO # ""

\* Whether lines 1218-1241 reach the send_trend_alert call.
SendsAlert(env, consensus) ==
    /\ PortIsInt(env.SMTP_PORT)
    /\ is_configured(env)
    /\ Get(consensus, "has_changes", FALSE)

\* Lines 1217-1241: the email block after a successful write.
EvaluateEmail ==
    /\ pc = "email"
    /\ \E env \in EmailEnvs :
          /\ email_env' = env
          /\ events' = IF SendsAlert(env, consensus_change_analysis)
                       THEN Append(events, "send_trend_alert")
                       ELSE events
    /\ pc' = "text"
    /\ UNCHANGED <<providers, google_consolidation_enabled, submitted, task,
                   returned, completed, collected, results, decision_source,
                   trading_decision, google_ai_wants_email,
                   consensus_change_analysis, ret>>
    /\ UNCHANGED <<backoffVars, extVars>>

Pair(text, change) == [kind |-> "pair", text |-> text, change |-> change]

\* Lines 1248-1300: the text version, and the return.
ReturnCombined ==
    /\ pc = "text"
    /\ ret' = Pair(CombinedText(results, trading_decision),
                   consensus_change_analysis)
    /\ pc' = "returned"
    /\ UNCHANGED <<providers, google_consolidation_enabled, submitted, task,
                   returned, completed, collected, results, decision_source,
                   trading_decision, google_ai_wants_email,
                   consensus_change_analysis, events, email_env>>
    /\ UNCHANGED <<backoffVars, extVars>>

Next ==
    \/ NoProviders
    \/ Submit
    \/ \E p \in AllProviders : Finish(p)
    \/ Collect
    \/ EnterCombine
    \/ NoSuccess
    \/ Consolidate
    \/ WriteReport
    \/ EvaluateEmail
    \/ ReturnCombined

Init == PipelineInit /\ BackoffIdle /\ ExtIdle

Spec == Init /\ [][Next]_vars

(***************************************************************************)
(* Claims about the analysis call                                          *)
(***************************************************************************)
\* The consensus has been computed.
ConsensusSet == pc \in {"write", "email", "text", "returned"} /\ results # <<>>

\* Some provider in results flagged changes.
SomeProviderFlagged ==
    \E i \in 1..Len(results) :
        LET ca == results[i].change_analysis
        IN  "has_changes" \in DOMAIN ca /\ Truthy(ca.has_changes)

\* Google AI's parsed email decision is "send".
GoogleSaysSend ==
    /\ google_consolidation_enabled
    /\ _parse_google_ai_email_decision(trading_decision)

Happened(e) == \E i \in 1..Len(events) : events[i] = e

Position(e) == CHOOSE i \in 1..Len(events) : events[i] = e

AfterEmailBlock == pc \in {"text", "returned"} /\ results # <<>>

EnvAllSet ==
    /\ email_env # [kind |-> "unread"]
    /\ email_env.EMAIL_USER # ""
    /\ email_env.EMAIL_PASSWORD # ""
    /\ email_env.EMAIL_TO # ""

\* What C2 says about the place of the write among the events.
WriteBeforeSend ==
    /\ Len(events) <= 2
    /\ Happened("send_trend_alert") =>
          /\ Happened("report_written")
          /\ Position("report_written") < Position("send_trend_alert")
    /\ Happened("report_failed") =>
          /\ ~Happened("send_trend_alert")
          /\ (pc = "returned" =>
                 ret.kind = "pair" /\ ret.change = consensus_change_analysis)

\* C2 as stated: send_trend_alert is invoked exactly when the report was
\* written, EMAIL_USER, EMAIL_PASSWORD and EMAIL_TO are all set and the
\* consensus has_changes is True; the write precedes the send, and a failed
\* write means no email but still a returned consensus.
C2_SendIffWrittenConfiguredChanged ==
    /\ WriteBeforeSend
    /\ AfterEmailBlock =>
          (Happened("send_trend_alert")
              <=> /\ Happened("report_written")
                  /\ EnvAllSet
                  /\ consensus_change_analysis.has_changes)

\* C2 amended: as above, with email configured meaning in addition that
\* EmailAlertManager() could be built, SMTP_PORT being unset or an integer.
C2_SendIffWrittenBuiltConfiguredChanged ==
    /\ WriteBeforeSend
    /\ AfterEmailBlock =>
          (Happened("send_trend_alert")
              <=> /\ Happened("report_written")
                  /\ EnvAllSet
                  /\ email_env.SMTP_PORT = "587"
                  /\ consensus_change_analysis.has_changes)

\* An alert sent after the write, returned to the caller.
C2_Witness ==
    /\ pc = "returned"
    /\ events = <<"report_written", "send_trend_alert">>
    /\ EnvAllSet
    /\ ret.change.has_changes

\* C3: with consolidation enabled the consensus has_changes, and with it the
\* email, follows Google AI's parsed decision alone: "do not send" means no
\* email whatever the providers flagged.
C3_GoogleDecisionOverrides ==
    (google_consolidation_enabled /\ ConsensusSet) =>
        /\ consensus_change_analysis.has_changes = GoogleSaysSend
        /\ ~GoogleSaysSend => ~Happened("send_trend_alert")

\* The pool has been left.
PoolLeft == pc \in {"combine", "write", "email", "text", "returned", "raised"}

\* A provider returned a non-empty text and a non-empty change analysis.
ReturnedBoth(p) ==
    /\ returned[p].analysis_text.t = "text"
    /\ Len(returned[p].analysis_text.v) > 0
    /\ returned[p].change_analysis.t = "dict"
    /\ DOMAIN returned[p].change_analysis.v # {}

ResultProviders == {results[i].provider : i \in 1..Len(results)}

\* C4: every configured provider is submitted exactly once, whatever the
\* other providers do, and the results handed to the consolidation hold
\* exactly the providers that returned both a text and a change analysis.
C4_ResultsAreTheSuccessfulProviders ==
    /\ \A p \in AllProviders : submitted[p] <= 1
    /\ PoolLeft =>
          /\ \A p \in AllProviders : submitted[p] = IF p \in providers THEN 1 ELSE 0
          /\ ResultProviders = {p \in providers : ReturnedBoth(p)}
          /\ Len(results) = Cardinality(ResultProviders)
          /\ \A i \in 1..Len(results) :
                /\ results[i].analysis_text
                      = returned[results[i].provider].analysis_text.v
                /\ results[i].change_analysis
                      = returned[results[i].provider].change_analysis.v

\* One provider failed, the first to complete, and the other one is the result.
C4_Witness ==
    /\ pc = "combine"
    /\ Len(completed) = 2
    /\ returned[completed[1]] = NoneResult
    /\ ResultProviders = {completed[2]}

\* What the call comes to for a results dict in a given insertion order.
FinalOutcome(rs) ==
    LET c == Consolidated(rs, google_consolidation_enabled, decision_source)
    IN  IF c.kind = "raise" THEN [kind |-> "raised"]
        ELSE Pair(CombinedText(rs, c.trading_decision), c.consensus)

\* The orders in which the providers of results could have been inserted.
Orders(rs) ==
    {[i \in 1..Len(rs) |-> rs[f[i]]] :
        f \in {g \in [1..Len(rs) -> 1..Len(rs)] :
                  \A a, b \in 1..Len(rs) : a # b => g[a] # g[b]}}

\* C5: what the call returns is the same for every order in which the
\* provider tasks complete.
C5_SameForEveryCompletionOrder ==
    (pc \in {"returned", "raised"} /\ results # <<>>) =>
        \A rs \in Orders(results) : FinalOutcome(rs) = ret

\* C6: the consolidation, the report and the email happen only when every
\* submitted provider task has finished, and a call with no successful
\* provider returns (None, None) without any of them.
C6_ConsolidationAfterAllTasks ==
    /\ (pc \in {"combine", "write", "email", "text", "raised"}
        \/ decision_source.src # "unset" \/ events # <<>>)
          => /\ \A p \in providers : task[p] = "finished" /\ submitted[p] = 1
             /\ results # <<>>
    /\ (pc = "returned" /\ results = <<>>)
          => /\ ret = NoneNone
             /\ decision_source.src = "unset"
             /\ events = <<>>
             /\ \A p \in providers : task[p] = "finished"

\* The email block runs after two provider tasks, one of them successful.
C6_Witness ==
    /\ pc = "email"
    /\ Cardinality(providers) = 2
    /\ Len(results) = 1
    /\ decision_source.src = "google"

\* The positions of results whose change analysis carries a probability.
Contributing ==
    {i \in 1..Len(results) :
        LET ca == results[i].change_analysis
        IN  "trend_change_probability" \in DOMAIN ca
            /\ ca.trend_change_probability # JNull}

ProbabilityAt(i) == results[i].change_analysis.trend_change_probability.v

RECURSIVE Total(_)
Total(S) ==
    IF S = {} THEN 0
    ELSE LET i == CHOOSE x \in S : TRUE
         IN  ProbabilityAt(i) + Total(S \ {i})

Sends(evs) == Len(SelectSeq(evs, LAMBDA e : e = "send_trend_alert"))

\* C15: during one analyze_with_trend_alerts call send_trend_alert is called at
\* most once, and only by the email block of the consensus step; no provider
\* analysis sends, whatever its own alert level or probability.
C15_AlertOnlyFromConsensus ==
    /\ [](Sends(events) <= 1)
    /\ [][Sends(events') > Sends(events) => pc = "email" /\ pc' = "text"]_vars

\* An alert was sent in a call where a provider reported a high alert level
\* and the Google chart analysis flagged changes.
C15_Witness ==
    /\ pc = "returned"
    /\ Sends(events) = 1
    /\ \E i \in 1..Len(results) :
          /\ results[i].provider # "google"
          /\ Get(results[i].change_analysis, "alert_level", JNull) = JStr("high")
          /\ Get(results[i].change_analysis, "trend_change_probability", JNull)
                 = JInt(85)
    /\ \E i \in 1..Len(results) : FlagsChanges(results[i].change_analysis)

\* The providers whose analysis goes through _parse_response.
CustomProviders == AllProviders \ {"google"}

\* C19: whatever the response, the change analysis of Perplexity, Claude, Grok
\* and OpenAI has has_changes absent or False, so they add no entry to
\* all_alerts; only the Google chart analysis can carry has_changes True.
C19_OnlyGoogleFlagsChanges ==
    /\ \A p \in CustomProviders :
          returned[p].change_analysis.t = "dict" =>
              ~FlagsChanges(returned[p].change_analysis.v)
    /\ \A i \in 1..Len(AllAlerts(results)) :
          AllAlerts(results)[i].provider = "google"

\* A provider answered with a structured evaluation of alert level high, the
\* Google chart analysis flagged changes, and both are in results.
C19_Witness ==
    /\ pc = "returned"
    /\ Len(AllAlerts(results)) = 1
    /\ \E i \in 1..Len(results) :
          /\ results[i].provider \in CustomProviders
          /\ Get(results[i].change_analysis, "alert_level", JNull) = JStr("high")
          /\ "has_changes" \notin DOMAIN results[i].change_analysis

\* What _generate_consolidated_trading_decision came to in the call under way.
DecisionOutcome ==
    _generate_consolidated_trading_decision(
        results, AvgProbability(AllProbabilities(results)), AllAlerts(results),
        decision_source)

\* The consolidation step has called _generate_consolidated_trading_decision.
DecisionCalled ==
    /\ pc \in {"raised", "write", "email", "text", "returned"}
    /\ results # <<>>
    /\ google_consolidation_enabled
    /\ Summable(AllProbabilities(results))

\* C20: _generate_consolidated_trading_decision never raises and returns a
\* non-empty text: the Google AI text when the consolidation call succeeds,
\* the locally voted decision when the key is missing or the call fails.
C20_DecisionNeverRaises ==
    DecisionCalled =>
        /\ DecisionOutcome.kind = "text"
        /\ DecisionOutcome.text # <<>>
        /\ decision_source.src = "google" =>
               Contains(DecisionOutcome.text, decision_source.text)
        /\ decision_source.src = "local" =>
               Contains(DecisionOutcome.text, <<"LOCAL", "CONSOLIDATED">>)




BackoffNext ==
    \/ AttemptText
    \/ AttemptAlternate
    \/ AttemptEmpty
    \/ AttemptError

InitBackoff == BackoffInit /\ PipelineIdle /\ ExtIdle

SpecBackoff == InitBackoff /\ [][BackoffNext]_vars

SpecBackoffFair == SpecBackoff /\ WF_vars(BackoffNext)

(***************************************************************************)
(* Claims about the backoff helpers                                        *)
(***************************************************************************)
\* Number of model.generate_content invocations made so far.
Invocations == Len(attempts)

\* C7: every helper call ends, and never after more than max_attempts
\* invocations of model.generate_content, whatever the outcomes are.
C7_TerminatesWithinMaxAttempts ==
    /\ [](Invocations <= max_attempts)
    /\ <>(bpc = "done")

\* A consolidation call that used all five attempts and then raised.
C7_Witness ==
    /\ helper = "multi"
    /\ bpc = "done"
    /\ Invocations = max_attempts
    /\ bresult.kind = "raised"

NonRetryableFailure(i) ==
    /\ attempts[i].outcome = "error"
    /\ ~is_retryable(helper, attempts[i].msg)

\* C8: in the chart helper an attempt that fails with a non-retryable error
\* is the last invocation: the helper stops there and returns None.
C8_NonRetryableGivesUp ==
    helper = "chart" =>
        \A i \in 1..Len(attempts) :
            NonRetryableFailure(i) =>
                /\ i = Len(attempts)
                /\ bpc = "done"
                /\ bresult = Returned(None)

\* The un-jittered delays of the default arguments, in seconds.
DefaultDelays == <<1, 2, 4, 8>>

\* C9: a sleep follows only a retryable failure of an attempt before the
\* last one, and after failed attempt k it lasts between base_delay*2^(k-1)
\* and base_delay*2^(k-1)+1 seconds (1, 2, 4, 8 un-jittered).
C9_SleepOnlyAfterRetryable ==
    \A i \in 1..Len(attempts) :
        /\ attempts[i].n = i
        /\ attempts[i].slept =>
            /\ attempts[i].outcome = "error"
            /\ is_retryable(helper, attempts[i].msg)
            /\ i < max_attempts
            /\ attempts[i].duration >= DefaultDelays[i] * JitterSteps
            /\ attempts[i].duration <= (DefaultDelays[i] + 1) * JitterSteps

\* Four sleeps in a row, the last with the largest jitter, in each kind of helper.
C9_Witness ==
    /\ Len(attempts) = max_attempts
    /\ \A i \in 1..(max_attempts - 1) : attempts[i].slept
    /\ attempts[4].duration = 9 * JitterSteps
    /\ ~attempts[max_attempts].slept
    /\ attempts[max_attempts].outcome = "error"
    /\ is_retryable(helper, attempts[max_attempts].msg)

(***************************************************************************)
(* run_scheduled and is_within_market_hours (src/main.py)                  *)
(***************************************************************************)
\* Longest log of checks, runs and sleeps that is followed.
MaxSchedEvents == 6

\* time.sleep(300): the pause after a check outside market hours
outside_hours_sleep == 300

SecondsPerDay == 24 * 60 * 60

\* dt_time(hour, minute) as seconds since midnight
dt_time(hour, minute) == hour * 3600 + minute * 60

\* The settings the environment can hold: SCHEDULE_ENABLED, whether pytz
\* was importable, whether CAPTURE_TIMEZONE names a zone pytz knows,
\* CAPTURE_START_TIME, CAPTURE_STOP_TIME and CAPTURE_INTERVAL_SECONDS.
ScheduleSettings ==
    [schedule_enabled : BOOLEAN,
     pytz_available : BOOLEAN,
     timezone_known : BOOLEAN,
     start_time : {[hour |-> 9, minute |-> 30]},
     stop_time : {[hour |-> 16, minute |-> 0], [hour |-> 9, minute |-> 0]},
     interval_seconds : {3600, 900}]

\* The times of day run_scheduled can be started at: every five minutes.
StartTimes == {k * 300 : k \in 0..287}

\* How long a main() run can take, in seconds.
MainDurations == {0, 300}

SchedInit ==
    /\ settings \in ScheduleSettings
    /\ spc = "start"
    /\ now \in StartTimes
    /\ run_count = 0
    /\ mains_started = 0
    /\ slog = <<>>

\* is_within_market_hours() with the clock at t
is_within_market_hours(env, t) ==
    IF ~env.schedule_enabled THEN TRUE
    ELSE IF ~env.pytz_available THEN TRUE
    ELSE IF ~env.timezone_known
    THEN \* pytz.timezone raises, `except Exception`: "Running anyway."
         TRUE
    ELSE /\ dt_time(env.start_time.hour, env.start_time.minute) <= t
         /\ t <= dt_time(env.stop_time.hour, env.stop_time.minute)

\* Where the loop body goes after the check, with every check sent to a run.
after_check_always_run(within) == "starting"

\* `if is_within_market_hours(): ... else: ...`
after_check(within) == IF within THEN "starting" ELSE "outside"

Later(t, seconds) == (t + seconds) % SecondsPerDay

CheckEvent(within) == [e |-> "check", within |-> within, seconds |-> 0]
MainEvent == [e |-> "main", within |-> TRUE, seconds |-> 0]
ErrorEvent == [e |-> "error", within |-> TRUE, seconds |-> 0]
SleepEvent(seconds) == [e |-> "sleep", within |-> TRUE, seconds |-> seconds]
\* main() logs "Cancelled by user"
CancelledEvent == [e |-> "cancelled", within |-> TRUE, seconds |-> 0]

\* SCHEDULE_ENABLED is not true: main() once, then return
RunOnce ==
    /\ spc = "start"
    /\ ~settings.schedule_enabled
    /\ mains_started' = mains_started + 1
    /\ slog' = Append(slog, MainEvent)
    /\ spc' = "once"
    /\ UNCHANGED <<settings, now, run_count>>
    /\ UNCHANGED <<backoffVars, pipelineVars, storeVars, legacyVars, analyzerVars, parserVars>>

\* The single main() of the unscheduled mode returns.
OnceReturns ==
    /\ spc = "once"
    /\ \E d \in MainDurations : now' = Later(now, d)
    /\ spc' = "returned"
    /\ UNCHANGED <<settings, run_count, mains_started, slog>>
    /\ UNCHANGED <<backoffVars, pipelineVars, storeVars, legacyVars, analyzerVars, parserVars>>

\* Lines 557-569: the parameters are read and run_count = 0
EnterSchedule ==
    /\ spc = "start"
    /\ settings.schedule_enabled
    /\ run_count' = 0
    /\ spc' = "check"
    /\ UNCHANGED <<settings, now, mains_started, slog>>
    /\ UNCHANGED <<backoffVars, pipelineVars, storeVars, legacyVars, analyzerVars, parserVars>>

\* Lines 573-574 and 589: the check and, when it is True, run_count += 1
CheckMarketHours ==
    /\ spc = "check"
    /\ Len(slog) < MaxSchedEvents
    /\ LET within == is_within_market_hours(settings, now)
       IN  /\ slog' = Append(slog, CheckEvent(within))
           /\ spc' = after_check(within)
           /\ run_count' = IF after_check(within) = "starting"
                           THEN run_count + 1 ELSE run_count
    /\ UNCHANGED <<settings, now, mains_started>>
    /\ UNCHANGED <<backoffVars, pipelineVars, storeVars, legacyVars, analyzerVars, parserVars>>

\* Lines 575-584: the banner, then main(). pytz.timezone(timezone_str) raises
\* on an unknown zone and the `except Exception` clause takes over.
StartMain ==
    /\ spc = "starting"
    /\ IF settings.pytz_available /\ ~settings.timezone_known
       THEN /\ slog' = Append(slog, ErrorEvent)
            /\ spc' = "error"
            /\ UNCHANGED mains_started
       ELSE /\ slog' = Append(slog, MainEvent)
            /\ spc' = "main"
            /\ mains_started' = mains_started + 1
    /\ UNCHANGED <<settings, now, run_count>>
    /\ UNCHANGED <<backoffVars, pipelineVars, storeVars, legacyVars, analyzerVars, parserVars>>

\* main() returns; it catches its own exceptions and KeyboardInterrupt.
MainReturns ==
    /\ spc = "main"
    /\ \E d \in MainDurations : now' = Later(now, d)
    /\ spc' = "ran"
    /\ UNCHANGED <<settings, run_count, mains_started, slog>>
    /\ UNCHANGED <<backoffVars, pipelineVars, storeVars, legacyVars, analyzerVars, parserVars>>

\* KeyboardInterrupt while main() is inside its try block (lines 382-540):
\* main's own `except KeyboardInterrupt` logs "Cancelled by user" and main()
\* returns to the loop as after any run.
CancelledInMain ==
    /\ spc = "main"
    /\ \E d \in MainDurations : now' = Later(now, d)
    /\ slog' = Append(slog, CancelledEvent)
    /\ spc' = "ran"
    /\ UNCHANGED <<settings, run_count, mains_started>>
    /\ UNCHANGED <<backoffVars, pipelineVars, storeVars, legacyVars, analyzerVars, parserVars>>

\* time.sleep(interval_seconds) after a run (line 588) or an error (line 606)
SleepInterval ==
    /\ spc \in {"ran", "error"}
    /\ now' = Later(now, settings.interval_seconds)
    /\ slog' = Append(slog, SleepEvent(settings.interval_seconds))
    /\ spc' = "check"
    /\ UNCHANGED <<settings, run_count, mains_started>>
    /\ UNCHANGED <<backoffVars, pipelineVars, storeVars, legacyVars, analyzerVars, parserVars>>

\* Lines 590-598: outside market hours, time.sleep(300)
SleepOutside ==
    /\ spc = "outside"
    /\ now' = Later(now, outside_hours_sleep)
    /\ slog' = Append(slog, SleepEvent(outside_hours_sleep))
    /\ spc' = "check"
    /\ UNCHANGED <<settings, run_count, mains_started>>
    /\ UNCHANGED <<backoffVars, pipelineVars, storeVars, legacyVars, analyzerVars, parserVars>>

\* KeyboardInterrupt during a sleep, or in main() before its try block:
\* "Stopped by user after {run_count} runs", break
StoppedByUser ==
    /\ spc \in {"main", "ran", "error", "outside"}
    /\ spc' = "stopped"
    /\ UNCHANGED <<settings, now, run_count, mains_started, slog>>
    /\ UNCHANGED <<backoffVars, pipelineVars, storeVars, legacyVars, analyzerVars, parserVars>>

SchedNext ==
    \/ RunOnce
    \/ OnceReturns
    \/ EnterSchedule
    \/ CheckMarketHours
    \/ StartMain
    \/ MainReturns
    \/ CancelledInMain
    \/ SleepInterval
    \/ SleepOutside
    \/ StoppedByUser

InitSchedule ==
    /\ SchedInit /\ BackoffIdle /\ PipelineIdle
    /\ StoreIdle /\ LegacyIdle /\ AnalyzersIdle /\ ParserIdle

SpecSchedule == InitSchedule /\ [][SchedNext]_vars

(***************************************************************************)
(* Claims about run_scheduled                                              *)
(***************************************************************************)
\* Scheduled mode with pytz and a time zone pytz knows.
ScheduledWellFormed ==
    /\ spc \notin {"idle"}
    /\ settings.schedule_enabled
    /\ settings.pytz_available
    /\ settings.timezone_known

MainEvents == {i \in 1..Len(slog) : slog[i].e = "main"}

InterruptsInMain == {i \in 1..Len(slog) : slog[i] = CancelledEvent}

\* C21: in scheduled mode a KeyboardInterrupt stops the loop whenever it
\* arrives, also while main() is running: the "Stopped by user" exit is taken
\* and no later run is started.
C21_InterruptStopsLoop ==
    settings.schedule_enabled =>
        \A i \in InterruptsInMain :
            /\ spc = "stopped"
            /\ \A j \in (i + 1)..Len(slog) : slog[j].e \notin {"check", "main"}

\* A run was started after a KeyboardInterrupt that arrived in main().
C21_RunAfterInterrupt ==
    \E i \in InterruptsInMain : \E j \in MainEvents : j > i


(***************************************************************************)
(* The report file: save_combined_analysis_report and _load_prior_analysis *)
(* over the runs main() makes for one symbol (src/trading_analysis.py)     *)
(***************************************************************************)
\* Number of runs over the symbol folder that are followed.
MaxRuns == 3

ResultsMarker == "Combined Analysis Results:"

\* A line of n "=" signs is one word of a text.
EqualsRun(n) ==
    CASE n = 20 -> "=x20" [] n = 40 -> "=x40" [] n = 60 -> "=x60"

\* Length of the run of "=" a word consists of, 0 for any other word.
RunLength(w) ==
    CASE w = "=x20" -> 20 [] w = "=x40" -> 40 [] w = "=x60" -> 60
      [] OTHER -> 0

\* The analyses a run can hand to the save: a provider's free text as
\* _parse_response returns it, or a combined multi-provider text with its
\* lines of "=" signs.
StoreAnalyses ==
    { <<"first">>,
      <<" ", "second", " ">>,
      <<" ">>,
      <<"GOOGLE AI CONSOLIDATED TRADING DECISION", " ", "=x60", " ",
        ResultsMarker, " ", "=x40", " ", "third">> }

\* The text save_combined_analysis_report writes after open(report_path, 'w')
report_text(analysis, change_analysis) ==
    <<"Combined Screenshot Analysis Report", " ", EqualsRun(60), " ",
      "Analysis Date:", " ", "Screenshot Sources:", " ">>
    \o (IF DOMAIN change_analysis # {}
        THEN <<"Trend Change Analysis:", " ", "[SUMMARY]",
               Get(change_analysis, "summary", JStr("")).v, " ">>
        ELSE <<>>)
    \o <<ResultsMarker, " ", EqualsRun(40), " ">>
    \o analysis
    \o <<" ", " ">>

\* The file after a save that opened it with mode 'a'
written_file_appending(previous, analysis, change_analysis) ==
    [exists |-> TRUE,
     content |-> previous.content \o report_text(analysis, change_analysis)]

\* The file after the save: mode 'w' discards what it held
written_file(previous, analysis, change_analysis) ==
    [exists |-> TRUE, content |-> report_text(analysis, change_analysis)]

\* content.find(word, start): the first position from start on, 0 for -1
FindWord(content, word, start) ==
    IF \E i \in start..Len(content) : content[i] = word
    THEN CHOOSE i \in start..Len(content) :
            /\ content[i] = word
            /\ \A j \in start..(i - 1) : content[j] # word
    ELSE 0

\* content.find("=" * 40, start): the first line of at least 40 "=" signs
FindEquals(content, start) ==
    IF \E i \in start..Len(content) : RunLength(content[i]) >= 40
    THEN CHOOSE i \in start..Len(content) :
            /\ RunLength(content[i]) >= 40
            /\ \A j \in start..(i - 1) : RunLength(content[j]) < 40
    ELSE 0

\* content[equals_line + 40:]
AfterEquals(content, at) ==
    (IF RunLength(content[at]) > 40
     THEN <<EqualsRun(RunLength(content[at]) - 40)>> ELSE <<>>)
    \o SubSeq(content, at + 1, Len(content))

\* PerplexityAnalyzer._load_prior_analysis
_load_prior_analysis(file) ==
    IF ~file.exists THEN JNull
    ELSE LET analysis_start == FindWord(file.content, ResultsMarker, 1)
         IN  IF analysis_start = 0 THEN JNull
             ELSE LET equals_line == FindEquals(file.content, analysis_start)
                  IN  IF equals_line = 0 THEN JNull
                      ELSE LET analysis_content ==
                                   Strip(AfterEquals(file.content, equals_line))
                           IN  IF analysis_content # <<>>
                               THEN [t |-> "text", v |-> analysis_content]
                               ELSE JNull

StoreInit ==
    /\ latest_file = [exists |-> FALSE, content |-> <<>>]
    /\ prior_analysis = JNull
    /\ run_analysis = JNull
    /\ saved = <<>>
    /\ rpc = "load"

\* analyze_with_trend_alerts loads the prior analysis of the folder
LoadPrior ==
    /\ rpc = "load"
    /\ prior_analysis' = _load_prior_analysis(latest_file)
    /\ rpc' = "analyze"
    /\ UNCHANGED <<latest_file, run_analysis, saved>>
    /\ UNCHANGED <<backoffVars, pipelineVars, schedVars, legacyVars, analyzerVars, parserVars>>

\* analyze_with_trend_alerts returns an analysis, or (None, None)
Analyze ==
    /\ rpc = "analyze"
    /\ \/ run_analysis' = JNull
       \/ \E a \in StoreAnalyses : run_analysis' = [t |-> "text", v |-> a]
    /\ rpc' = "save"
    /\ UNCHANGED <<latest_file, prior_analysis, saved>>
    /\ UNCHANGED <<backoffVars, pipelineVars, schedVars, legacyVars, analyzerVars, parserVars>>

\* main(): `if analysis: analyzer.save_combined_analysis_report(...)`
SaveReport ==
    /\ rpc = "save"
    /\ IF run_analysis.t = "text" /\ run_analysis.v # <<>>
       THEN /\ latest_file' = written_file(latest_file, run_analysis.v,
                                           ParsingFallback)
            /\ saved' = Append(saved, run_analysis.v)
       ELSE UNCHANGED <<latest_file, saved>>
    /\ rpc' = "done"
    /\ UNCHANGED <<prior_analysis, run_analysis>>
    /\ UNCHANGED <<backoffVars, pipelineVars, schedVars, legacyVars, analyzerVars, parserVars>>

\* The next run for the symbol begins.
NextRun ==
    /\ rpc = "done"
    /\ Len(saved) < MaxRuns
    /\ rpc' = "load"
    /\ UNCHANGED <<latest_file, prior_analysis, run_analysis, saved>>
    /\ UNCHANGED <<backoffVars, pipelineVars, schedVars, legacyVars, analyzerVars, parserVars>>

StoreNext ==
    \/ LoadPrior
    \/ Analyze
    \/ SaveReport
    \/ NextRun

InitStore ==
    /\ StoreInit /\ BackoffIdle /\ PipelineIdle
    /\ SchedIdle /\ LegacyIdle /\ AnalyzersIdle /\ ParserIdle

SpecStore == InitStore /\ [][StoreNext]_vars

(***************************************************************************)
(* Claims about the report file                                            *)
(***************************************************************************)
\* The analyses saved by the runs before the current one.
SavedEarlier ==
    IF rpc = "done" /\ run_analysis.t = "text"
    THEN SubSeq(saved, 1, Len(saved) - 1) ELSE saved

\* The words of a text that are not white space.
Words(t) == SelectSeq(t, LAMBDA w : w # " ")

\* The text with the white space at its two ends removed.
Trimmed(t) ==
    IF Words(t) = <<>> THEN <<>>
    ELSE LET first == CHOOSE i \in 1..Len(t) :
                         t[i] # " " /\ \A j \in 1..(i - 1) : t[j] = " "
             last == CHOOSE i \in 1..Len(t) :
                         t[i] # " " /\ \A j \in (i + 1)..Len(t) : t[j] = " "
         IN  SubSeq(t, first, last)

\* The stripped text of the last of some saved analyses, None if there is none.
LastOf(analyses) ==
    IF analyses = <<>> THEN JNull
    ELSE [t |-> "text", v |-> Trimmed(analyses[Len(analyses)])]

\* The same, with None also for a last analysis that is all white space.
LastNonBlankOf(analyses) ==
    IF analyses = <<>> \/ Trimmed(analyses[Len(analyses)]) = <<>> THEN JNull
    ELSE [t |-> "text", v |-> Trimmed(analyses[Len(analyses)])]

\* The file holds the most recently saved analysis and nothing of the others.
HoldsOnlyLatest ==
    IF saved = <<>> THEN ~latest_file.exists
    ELSE /\ latest_file.exists
         /\ latest_file.content = report_text(saved[Len(saved)], ParsingFallback)

BaselineTaken == rpc \in {"analyze", "save", "done"}

WindowTypes == <<"trend_analysis", "workspace">>

\* A screenshot path is None, names no file, names a file that cannot be
\* read, or names a readable image.
ScreenshotStates == {"none", "missing", "unreadable", "image"}

\* What chat.completions.create can come to: it raises, or message.content
\* is None, free text, or a text with the two section markers.
LegacyAnswers ==
    {ApiFailure, NoResponse}
    \cup {PlainResponse(t) : t \in {<<>>, <<" ", "analysis", " ">>}}
    \cup {StructuredResponse(<<" ", "analysis", " ">>, [t |-> "object", v |-> o]) :
             o \in TrendObjects}
    \cup {StructuredResponse(<<"analysis">>, [t |-> j]) :
             j \in {"invalid", "nojson"}}

LegacyInit ==
    /\ screenshot_data \in [1..Len(WindowTypes) -> ScreenshotStates]
    /\ image_data_uris = {}
    /\ api_answer = [kind |-> "unasked"]
    /\ lpc = "filter"
    /\ lret = [kind |-> "pending"]

\* valid_screenshots: `if v and os.path.exists(v)`
valid_screenshots(data) ==
    {i \in DOMAIN data : data[i] \in {"unreadable", "image"}}

\* Lines 85-89
FilterScreenshots ==
    /\ lpc = "filter"
    /\ IF valid_screenshots(screenshot_data) = {}
       THEN lpc' = "returned" /\ lret' = NoneNone
       ELSE lpc' = "encode" /\ UNCHANGED lret
    /\ UNCHANGED <<screenshot_data, image_data_uris, api_answer>>
    /\ UNCHANGED <<backoffVars, pipelineVars, schedVars, storeVars, analyzerVars, parserVars>>

\* Lines 99-110: encode_image_to_base64 raises on a file it cannot read
EncodeImages ==
    /\ lpc = "encode"
    /\ image_data_uris' =
          {i \in valid_screenshots(screenshot_data) : screenshot_data[i] = "image"}
    /\ IF image_data_uris' = {}
       THEN lpc' = "returned" /\ lret' = NoneNone
       ELSE lpc' = "request" /\ UNCHANGED lret
    /\ UNCHANGED <<screenshot_data, api_answer>>
    /\ UNCHANGED <<backoffVars, pipelineVars, schedVars, storeVars, analyzerVars, parserVars>>

\* Lines 141-159 for a response: _parse_response, then the subscript
\* change_analysis['has_changes'], a KeyError on a dict without that key,
\* which the except clause turns into (None, None).
legacy_result(response) ==
    LET parsed == _parse_response(response)
    IN  IF "has_changes" \in DOMAIN parsed.change_analysis.v
        THEN Pair(parsed.analysis_text.v, parsed.change_analysis.v)
        ELSE NoneNone

\* Lines 127-159
RequestAndParse ==
    /\ lpc = "request"
    /\ \E answer \in LegacyAnswers :
          /\ api_answer' = answer
          /\ lret' = IF answer.kind = "raise" THEN NoneNone
                     ELSE legacy_result(answer)
    /\ lpc' = "returned"
    /\ UNCHANGED <<screenshot_data, image_data_uris>>
    /\ UNCHANGED <<backoffVars, pipelineVars, schedVars, storeVars, analyzerVars, parserVars>>

LegacyNext ==
    \/ FilterScreenshots
    \/ EncodeImages
    \/ RequestAndParse

InitLegacy ==
    /\ LegacyInit /\ BackoffIdle /\ PipelineIdle
    /\ SchedIdle /\ StoreIdle /\ AnalyzersIdle /\ ParserIdle

SpecLegacy == InitLegacy /\ [][LegacyNext]_vars

(***************************************************************************)
(* Claims about PerplexityAnalyzer.analyze_with_trend_alerts               *)
(***************************************************************************)
\* The API returned a response text.
ApiReturnedText == api_answer.kind \in {"plain", "structured"}

\* C13: (None, None) is returned only when there was no existing screenshot,
\* no image could be encoded or the API call raised; a response text,
\* structured or not, is returned as _parse_response parsed it.
C13_NoneOnlyOnFailure ==
    lpc = "returned" =>
        /\ lret = NoneNone =>
              \/ \A i \in DOMAIN screenshot_data :
                    screenshot_data[i] \in {"none", "missing"}
              \/ \A i \in DOMAIN screenshot_data : screenshot_data[i] # "image"
              \/ api_answer.kind = "raise"
        /\ ApiReturnedText =>
              /\ lret.kind = "pair"
              /\ lret.text = _parse_response(api_answer).analysis_text.v
              /\ lret.change = _parse_response(api_answer).change_analysis.v

(***************************************************************************)
(* analyze_screenshots of PerplexityAnalyzer, ClaudeAnalyzer and           *)
(* GoogleAIAnalyzer, as test_individual_providers.py and TradingAnalyzer   *)
(* call them (src/ai_analysis.py, src/test_individual_providers.py)        *)
(***************************************************************************)
\* Largest number of screenshots in a request.
MaxImages == 2

Extensions == {".png", ".jpg", ".webp"}

\* utils.encode_image_to_base64: "data:{mime_type};base64,{base64_image}"
encode_image_to_base64(ext) ==
    [scheme |-> "data:",
     mime_type |-> CASE ext = ".png" -> "image/png"
                     [] ext = ".jpg" -> "image/jpeg"
                     [] ext = ".webp" -> "image/webp",
     data |-> ext]

TextItem(text) == [type |-> "text", text |-> text]
ImageItem(uri) == [type |-> "image_url", url |-> uri]

\* content = [{"type": "text", ...}] followed by one image_url item per image
ContentList(exts) ==
    <<TextItem("prompt")>> \o [i \in 1..Len(exts) |-> ImageItem(
                                   encode_image_to_base64(exts[i]))]

\* TradingAnalyzer._build_messages_for_provider
_build_messages_for_provider(content) == <<[role |-> "user", content |-> content]>>

ImageLists == UNION {[1..n -> Extensions] : n \in 0..MaxImages}

AnalyzerInit ==
    /\ \E exts \in ImageLists :
          messages \in {ContentList(exts),
                        _build_messages_for_provider(ContentList(exts))}
    /\ requests = <<>>

RaisedBeforeCall(error) == [kind |-> "raised", error |-> error, sent |-> <<>>]
Sent(payload) == [kind |-> "sent", error |-> "", sent |-> payload]
NotCalled(value) == [kind |-> "returned", error |-> value, sent |-> <<>>]

\* PerplexityAnalyzer.analyze_screenshots: messages=messages
PerplexityRequest(msgs) == Sent(msgs)

RECURSIVE ClaudeContent(_)
\* Lines 159-176: the content of one user message in Claude's format
ClaudeContent(items) ==
    IF items = <<>> THEN <<>>
    ELSE LET item == Head(items)
         IN  (IF item.type = "text" THEN <<[type |-> "text", text |-> item.text]>>
              ELSE IF item.type = "image_url" /\ item.url.scheme = "data:"
              THEN <<[type |-> "image", media_type |-> item.url.mime_type,
                      data |-> item.url.data]>>
              ELSE <<>>)
             \o ClaudeContent(Tail(items))

\* ClaudeAnalyzer.analyze_screenshots: msg["role"] on every message
ClaudeRequest(msgs) ==
    IF \E i \in 1..Len(msgs) : "role" \notin DOMAIN msgs[i]
    THEN RaisedBeforeCall("KeyError: 'role'")
    ELSE Sent([i \in 1..Len(msgs) |->
                 [role |-> "user", content |-> ClaudeContent(msgs[i].content)]])

\* Lines 320-325: the media type Google AI is told
GoogleMediaType(mime_type) ==
    IF mime_type = "image/png" THEN "image/png" ELSE "image/jpeg"

RECURSIVE GoogleParts(_)
\* Lines 303-335: content_parts
GoogleParts(msgs) ==
    IF msgs = <<>> THEN <<>>
    ELSE LET msg == Head(msgs)
             type == IF "type" \in DOMAIN msg THEN msg.type ELSE "None"
         IN  (IF type = "text" THEN <<[type |-> "text", text |-> msg.text]>>
              ELSE IF type = "image_url"
              THEN <<[type |-> "image",
                      media_type |-> GoogleMediaType(msg.url.mime_type),
                      data |-> msg.url.data]>>
              ELSE <<>>)
             \o GoogleParts(Tail(msgs))

\* GoogleAIAnalyzer.analyze_screenshots
GoogleRequest(msgs) ==
    IF GoogleParts(msgs) = <<>> THEN NotCalled("No content to analyze")
    ELSE Sent(GoogleParts(msgs))

\* The analyzers in the order test_individual_providers.main tests them.
TestOrder == <<"perplexity", "claude", "google">>

RequestOf(provider, msgs) ==
    CASE provider = "perplexity" -> PerplexityRequest(msgs)
      [] provider = "claude" -> ClaudeRequest(msgs)
      [] provider = "google" -> GoogleRequest(msgs)

\* What the provider API does with a request that reached it.
ApiOutcomes == {"answered", "raised"}

\* analyzer.analyze_screenshots(content) for the next analyzer
TestProvider ==
    /\ messages # <<>>
    /\ Len(requests) < Len(TestOrder)
    /\ LET provider == TestOrder[Len(requests) + 1]
           request == RequestOf(provider, messages)
       IN  \E api \in ApiOutcomes :
              /\ request.kind # "sent" => api = "answered"
              /\ requests' = Append(requests,
                     [provider |-> provider, request |-> request, api |-> api])
    /\ UNCHANGED messages
    /\ UNCHANGED <<backoffVars, pipelineVars, schedVars, storeVars, legacyVars,
                   parserVars>>

AnalyzerNext == TestProvider

InitAnalyzers ==
    /\ AnalyzerInit /\ BackoffIdle /\ PipelineIdle
    /\ SchedIdle /\ StoreIdle /\ LegacyIdle /\ ParserIdle

SpecAnalyzers == InitAnalyzers /\ [][AnalyzerNext]_vars

(***************************************************************************)
(* Claims about analyze_screenshots                                        *)
(***************************************************************************)
\* The argument is a flat content list: a text item, then image_url items.
FlatContentList ==
    /\ messages # <<>>
    /\ \A i \in 1..Len(messages) : "type" \in DOMAIN messages[i]
    /\ messages[1].type = "text"
    /\ \A i \in 2..Len(messages) : messages[i].type = "image_url"

\* The words of the text items and the data of the images in a sequence of
\* items or parts, one level of `content` unfolded.
RECURSIVE Payload(_)
Payload(items) ==
    IF items = <<>> THEN <<>>
    ELSE LET item == Head(items)
         IN  (IF "content" \in DOMAIN item THEN Payload(item.content)
              ELSE IF "text" \in DOMAIN item THEN <<item.text>>
              ELSE IF "url" \in DOMAIN item THEN <<item.url.data>>
              ELSE <<item.data>>)
             \o Payload(Tail(items))

\* C14: given the same flat content list, each of the three analyzers reaches
\* its API call without raising and sends the text and every image.
C14_FlatListForwardedByAll ==
    FlatContentList =>
        \A i \in 1..Len(requests) :
            /\ requests[i].request.kind = "sent"
            /\ Payload(requests[i].request.sent) = Payload(messages)

(***************************************************************************)
(* TradingAnalyzer._parse_google_ai_email_decision on its own              *)
(* (src/ai_analysis.py)                                                    *)
(***************************************************************************)
\* Largest number of phrases in a decision text.
MaxPhrases == 3

\* The phrases a decision text is put together from.
Phrases ==
    { <<"DO", "NOT">>, <<"SEND", "EMAIL">>, <<"ALERT">>, <<"ALERT:">>, <<"NO">>,
      <<"email", "alert", "decision:">>, <<"yes">>, <<"WARNING:">>, <<"SELL">>,
      <<"STRONG", "BUY">>, <<"SIGNALS">>, <<"HOLD">> }

RECURSIVE Join(_)
Join(phrases) ==
    IF phrases = <<>> THEN <<>> ELSE Head(phrases) \o Join(Tail(phrases))

\* The texts of at most MaxPhrases phrases; the empty one is also the missing
\* text, `not trading_decision` being true of both.
DecisionTexts == {Join(ps) : ps \in UNION {[1..n -> Phrases] : n \in 0..MaxPhrases}}

ParserInit ==
    /\ decision_arg \in DecisionTexts
    /\ email_decision = [kind |-> "called", value |-> FALSE]

\* The call returns.
ParseDecision ==
    /\ email_decision = [kind |-> "called", value |-> FALSE]
    /\ email_decision' =
          [kind |-> "returned",
           value |-> _parse_google_ai_email_decision(decision_arg)]
    /\ UNCHANGED decision_arg
    /\ UNCHANGED <<backoffVars, pipelineVars, schedVars, storeVars, legacyVars,
                   analyzerVars>>

ParserNext == ParseDecision

InitParser ==
    /\ ParserInit /\ BackoffIdle /\ PipelineIdle
    /\ SchedIdle /\ StoreIdle /\ LegacyIdle /\ AnalyzersIdle

SpecParser == InitParser /\ [][ParserNext]_vars

(***************************************************************************)
(* Claims about the email decision                                         *)
(***************************************************************************)
\* The call has returned.
DecisionParsed == email_decision.kind = "returned"

\* The upper-cased text contains one of the explicit NO patterns.
HasNoPattern ==
    \E pattern \in no_patterns : Contains(Upper(decision_arg), pattern)

\* The upper-cased text contains one of the explicit YES patterns.
HasYesPattern ==
    \E pattern \in yes_patterns : Contains(Upper(decision_arg), pattern)

\* C16: a decision text that contains one of the NO patterns yields False,
\* whatever else the text contains.
C16_NoPatternYieldsFalse ==
    DecisionParsed /\ HasNoPattern => email_decision.value = FALSE

\* The number of bullish and of bearish keywords that occur in the text.
BullishCount == KeywordCount(Upper(decision_arg), bullish_keywords)
BearishCount == KeywordCount(Upper(decision_arg), bearish_keywords)

\* One of the given words occurs in the text.
Mentions(words) ==
    \E w \in words : HasKeyword(Upper(decision_arg), <<w>>)

\* C17: with no explicit YES or NO pattern in the text, the result is True
\* exactly when the text has ALERT or SIGNAL and more bullish than bearish
\* keywords, or has WARNING or CAUTION and a bearish keyword; an empty or
\* missing text gives False.
C17_HeuristicsWithoutPattern ==
    DecisionParsed /\ ~HasYesPattern /\ ~HasNoPattern =>
        email_decision.value =
            (\/ Mentions({"ALERT", "SIGNAL"}) /\ BullishCount > BearishCount
             \/ Mentions({"WARNING", "CAUTION"}) /\ BearishCount > 0)

\* A patternless text with a warning, bearish keywords and no bullish bias
\* was parsed.
C17_Witness ==
    /\ DecisionParsed
    /\ ~HasYesPattern /\ ~HasNoPattern
    /\ Mentions({"WARNING", "CAUTION"}) /\ Mentions({"ALERT", "SIGNAL"})
    /\ BearishCount >= BullishCount
    /\ email_decision.value = TRUE

(***************************************************************************)
(* TradingAnalyzer._combine_multi_provider_results on results dicts given  *)
(* to it directly (src/ai_analysis.py)                                     *)
(***************************************************************************)
\* The alert levels the prompt asks the providers for.
PromptAlertLevels == {"low", "medium", "high", "critical"}

\* The probability that goes with a level in the answers of the model.
LevelProbability(level) ==
    CASE level = "low" -> 10
      [] level = "medium" -> 50
      [] OTHER -> 85

\* A change analysis that flags changes at the given level.
FlaggedAnalysis(level) ==
    [has_changes |-> JBool(TRUE), alert_level |-> JStr(level),
     trend_change_probability |-> JInt(LevelProbability(level)),
     summary |-> JStr(level)]

CombineAnalyses == {FlaggedAnalysis(l) : l \in PromptAlertLevels} \cup {ParsingFallback}

CombineProviders == {"claude", "perplexity", "grok"}

\* The results dicts of the model: one or two providers in either insertion
\* order.
CombineResults ==
    { rs \in UNION {[1..n -> [provider : CombineProviders,
                              analysis_text : {<<"analysis">>},
                              change_analysis : CombineAnalyses]] :
                       n \in 1..Cardinality(CombineProviders)} :
        \A i, j \in 1..Len(rs) : i # j => rs[i].provider # rs[j].provider }

\* The state in which _combine_multi_provider_results is entered.
InitCombine ==
    /\ results \in CombineResults
    /\ google_consolidation_enabled \in BOOLEAN
    /\ providers = {results[i].provider : i \in 1..Len(results)}
    /\ pc = "combine"
    /\ submitted = [p \in AllProviders |->
                      IF \E i \in 1..Len(results) : results[i].provider = p
                      THEN 1 ELSE 0]
    /\ task = [p \in AllProviders |->
                 IF \E i \in 1..Len(results) : results[i].provider = p
                 THEN "finished" ELSE "idle"]
    /\ returned = [p \in AllProviders |->
                     IF \E i \in 1..Len(results) : results[i].provider = p
                     THEN LET r == results[CHOOSE i \in 1..Len(results) :
                                               results[i].provider = p]
                          IN  TextResult(r.analysis_text, r.change_analysis)
                     ELSE NoneResult]
    /\ completed = [i \in 1..Len(results) |-> results[i].provider]
    /\ collected = Len(results)
    /\ decision_source = [src |-> "unset"]
    /\ trading_decision = NoDecision
    /\ google_ai_wants_email = FALSE
    /\ consensus_change_analysis = [kind |-> "unset"]
    /\ events = <<>>
    /\ email_env = [kind |-> "unread"]
    /\ ret = [kind |-> "pending"]
    /\ BackoffIdle /\ ExtIdle

CombineNext ==
    \/ Consolidate
    \/ WriteReport
    \/ EvaluateEmail
    \/ ReturnCombined

SpecCombine == InitCombine /\ [][CombineNext]_vars

(***************************************************************************)
(* Claims about the consensus alert level                                  *)
(***************************************************************************)
\* The order low < medium < high < critical.
Severity(level) ==
    CASE LowerLevel(level) = "low" -> 1
      [] LowerLevel(level) = "medium" -> 2
      [] LowerLevel(level) = "high" -> 3
      [] LowerLevel(level) = "critical" -> 4
      [] OTHER -> 0

LocalDecided ==
    /\ pc \in {"write", "email", "text", "returned"}
    /\ google_consolidation_enabled
    /\ decision_source = [src |-> "local"]

\* buy_votes, sell_votes and hold_votes of the call
Votes(x) == CountOf(Recommendations(results, AllAlerts(results)), x)

\* The word after "TRADING DECISION:" in the decision text.
DecidedWord ==
    LET at == CHOOSE i \in 1..Len(trading_decision) :
                  trading_decision[i] = "DECISION:"
    IN  trading_decision[at + 1]

\* C22: the local decision holds one recommendation per provider, so the BUY,
\* SELL and HOLD votes sum to the number of providers in results; the decision
\* is BUY (or SELL) only when its votes strictly exceed both other counts, and
\* every tie or HOLD plurality yields HOLD.
C22_OneVotePerProvider ==
    LocalDecided =>
        /\ Votes("BUY") + Votes("SELL") + Votes("HOLD") = Len(results)
        /\ DecidedWord \in {"BUY", "SELL", "HOLD"}
        /\ DecidedWord = "BUY" <=>
               Votes("BUY") > Votes("SELL") /\ Votes("BUY") > Votes("HOLD")
        /\ DecidedWord = "SELL" <=>
               Votes("SELL") > Votes("BUY") /\ Votes("SELL") > Votes("HOLD")

\* Three providers, two of them with alerts that vote BUY and SELL, the third
\* padded with HOLD: a three-way tie decided as HOLD.
C22_Witness ==
    /\ LocalDecided
    /\ Len(results) = 3
    /\ Len(AllAlerts(results)) = 2
    /\ Votes("BUY") = 1 /\ Votes("SELL") = 1 /\ Votes("HOLD") = 1
    /\ DecidedWord = "HOLD"

=============================================================================
